---------------------------- MODULE Spec2Model ----------------------------
(***************************************************************************)
(* State-machine model of influxdb3_server/src/query_executor.rs:          *)
(* QueryExecutorImpl (query, db, acquire_semaphore), QueryDatabase (the    *)
(* catalog / schema provider handed to the planner) and the completion     *)
(* token returned by record_query.                                         *)
(*                                                                         *)
(* Each call of query() is one process q.  Its position pc[q] moves over   *)
(* the statements of query(): the db() lookup (line 62), the context and   *)
(* token creation (lines 68-73), the await of Planner::sql (lines 75-77),  *)
(* the await of execute_stream (lines 80-82) and the return (line 84).     *)
(* While a query awaits Planner::sql the planner calls back into the       *)
(* SchemaProvider of the QueryDatabase (table_names, table_exist, table).  *)
(* The catalog is mutated concurrently by other services.                 *)
(***************************************************************************)
EXTENDS Naturals, Integers, Sequences, FiniteSets, TLC

\* ------------------------------------------------------------------ bounds

\* Number of concurrent calls of query().
NumQueries == 2

\* Number of other callers of acquire_semaphore (the Flight service).
NumCallers == 5

\* QueryExecutorImpl::new(.., concurrent_query_limit): the size of the
\* query-execution semaphore.
ConcurrentQueryLimit == 1

\* Longest sequence of chunks get_table_chunks returns.
MaxChunks == 2

Queries == 1 .. NumQueries
Callers == (NumQueries + 1) .. (NumQueries + NumCallers)
Owners == Queries \cup Callers

\* Database names a caller may pass and table names the planner may look up.
DbNames == {"telemetry", "missing_db"}
TableNames == {"cpu", "mem"}

\* Tables other services create while queries run.
NewTables == {"mem"}

\* Table schemas: ordered (column, type) pairs and a sort key.
SchemaCpu ==
    [columns |-> << <<"time", "timestamp">>, <<"host", "string">>, <<"value", "float">> >>,
     sort_key |-> <<"time">>]
SchemaMem ==
    [columns |-> << <<"time", "timestamp">>, <<"used", "float">> >>,
     sort_key |-> <<"time">>]
SchemaOf(t) == IF t = "cpu" THEN SchemaCpu ELSE SchemaMem

\* Table names a catalog snapshot may hold, and the bytes of each name:
\* Vec<String>::sort orders Strings byte by byte.
SnapshotNames == {"cpu", "cp", "Disk"}
Bytes(name) ==
    CASE name = "cpu" -> <<99, 112, 117>>
      [] name = "cp" -> <<99, 112>>
      [] name = "mem" -> <<109, 101, 109>>
      [] name = "Disk" -> <<68, 105, 115, 107>>

\* The schemas a table of a snapshot may have.
Schemas == {SchemaCpu, SchemaMem}

\* datafusion_util::config::DEFAULT_SCHEMA
DEFAULT_SCHEMA == "iox"

\* Schema names a planner may ask for.
SchemaNameArgs == {DEFAULT_SCHEMA, "public", "telemetry", ""}

\* Chunks the write buffer may return; a chunk is compatible with the
\* table schema or not.
Chunks == {[id |-> 1, compatible |-> TRUE],
           [id |-> 2, compatible |-> TRUE],
           [id |-> 3, compatible |-> FALSE]}
ChunkSeqs == UNION {[1 .. n -> Chunks] : n \in 0 .. MaxChunks}

\* Option::None.  Every optional value is a record with a `tag`, so that an
\* absent value compares with a present one.
None == [tag |-> "None"]

VARIABLES
    catalog,      \* Catalog: database name -> Arc<DatabaseSchema> or None
    pc,           \* position of each call of query()
    database,     \* the `database` argument of each call
    qdb,          \* the Arc<QueryDatabase> a query holds (db, line 62), or None
    resolved,     \* history: the catalog's entry for `database` when db() ran
    token,        \* the QueryCompletedToken `_token` of each query, or None
    signals,      \* per query: the `success` values its token's callback logged
    calls,        \* per query: the calls made on its behalf, in order
    result,       \* per query: what query() returned
    lastCall,     \* the last SchemaProvider call of a planner: the method,
                  \* the calling query, the receiver, the argument, the answer
    permits,      \* query_execution_semaphore: permits available
    waiters,      \* query_execution_semaphore: owners waiting, oldest first
    held,         \* per owner: permits acquired and not yet dropped
    closed,       \* query_execution_semaphore: it has been closed
    semResult     \* per owner: how its acquire_semaphore call ended, or None

queryVars == <<pc, database, qdb, resolved, token, signals, calls, result, lastCall>>
semVars == <<permits, waiters, held, closed, semResult>>
vars == <<catalog, queryVars, semVars>>

\* ---------------------------------------------------------------- catalog

\* A DatabaseSchema: its name and its tables (table name -> schema).
DatabaseSchema(name, tables) ==
    [tag |-> "DatabaseSchema", name |-> name, tables |-> tables]

NoTables == [t \in {} |-> SchemaCpu]

\* Catalog::db_schema(name): the Arc<DatabaseSchema> registered under `name`.
db_schema(cat, name) == cat[name]

\* DatabaseSchema::get_table_schema(name): the schema of a table of the
\* snapshot, None for a name that is not one of its tables.
get_table_schema(ds, name) ==
    IF name \in DOMAIN ds.tables
    THEN [tag |-> "Schema", schema |-> ds.tables[name]]
    ELSE None

\* ------------------------------------------------- QueryExecutorImpl::new

\* The semaphore is created with concurrent_query_limit permits.
new_semaphore == ConcurrentQueryLimit

\* ------------------------------------------------- QueryExecutorImpl::db

\* Variant of db: a missing database is served as an empty one.
db_missing_as_empty(cat, name) ==
    [tag |-> "QueryDatabase",
     db_schema |-> IF db_schema(cat, name) = None
                   THEN DatabaseSchema(name, NoTables)
                   ELSE db_schema(cat, name)]

\* db(name): None when the catalog has no such database (the `?` of line
\* 96), else a QueryDatabase holding the Arc<DatabaseSchema> it was given.
db(cat, name) ==
    IF db_schema(cat, name) = None
    THEN None
    ELSE [tag |-> "QueryDatabase", db_schema |-> db_schema(cat, name)]

\* ------------------------------------------------------ QueryDatabase

\* record_query: a QueryCompletedToken whose callback logs `success`.  The
\* token is created with success = false; only set_success() changes it.
record_query == [tag |-> "QueryCompletedToken", success |-> FALSE]

\* Variant of drop_token: the token is forgotten without running its callback.
drop_token_forgets(tok, log) == log

\* Drop of a QueryCompletedToken: the callback of lines 146-148 runs once
\* with the token's `success`.  `log` is what the callback has logged.
drop_token(tok, log) ==
    IF tok = None THEN log ELSE Append(log, tok.success)

\* Variant of table_exist: asks the live catalog instead of the snapshot.
table_exist_live(qd, name) == name \in DOMAIN catalog[qd.db_schema.name].tables

\* SchemaProvider::table_exist
table_exist(qd, name) == name \in DOMAIN qd.db_schema.tables

\* Ord for str: lexicographic on the bytes; a proper prefix is smaller.
RECURSIVE bytes_lt(_, _)
bytes_lt(a, b) ==
    IF b = <<>> THEN FALSE
    ELSE IF a = <<>> THEN TRUE
    ELSE IF Head(a) # Head(b) THEN Head(a) < Head(b)
    ELSE bytes_lt(Tail(a), Tail(b))
str_lt(a, b) == bytes_lt(Bytes(a), Bytes(b))

\* Vec::sort: the names in ascending order (stable; equal names keep
\* their order).
RECURSIVE insert_sorted(_, _)
insert_sorted(sorted, x) ==
    IF sorted = <<>> THEN <<x>>
    ELSE IF str_lt(x, Head(sorted)) THEN <<x>> \o sorted
    ELSE <<Head(sorted)>> \o insert_sorted(Tail(sorted), x)
RECURSIVE sort(_)
sort(names) ==
    IF names = <<>> THEN <<>>
    ELSE insert_sorted(sort(SubSeq(names, 1, Len(names) - 1)), names[Len(names)])

\* db_schema.tables.keys(): every name once, in the map's iteration order,
\* which is any order.
keys(tables) ==
    {ks \in [1 .. Cardinality(DOMAIN tables) -> DOMAIN tables] :
        \A i, j \in DOMAIN ks : i # j => ks[i] # ks[j]}

\* Variant of table_names: the names are returned as the map yields them.
table_names_unsorted(ks) == ks

\* SchemaProvider::table_names: the keys collected (in the order `ks` the
\* map yields them) and sorted.
table_names(ks) == sort(ks)

\* Variant of schema: every schema name resolves to the database.
schema_any_name(qd, name) == [tag |-> "SchemaProvider", provider |-> qd]

\* CatalogProvider::schema_names
schema_names(qd) == <<DEFAULT_SCHEMA>>

\* CatalogProvider::schema: the database itself for DEFAULT_SCHEMA, None
\* for any other name.
schema(qd, name) ==
    IF name = DEFAULT_SCHEMA
    THEN [tag |-> "SchemaProvider", provider |-> qd]
    ELSE None

\* Variant of table: the adapter is given the schema of some table of the
\* snapshot, not of the one asked for.
table_any_schema(qd, name) ==
    IF name \notin DOMAIN qd.db_schema.tables
    THEN [tag |-> "Panic"]
    ELSE [tag |-> "QueryTable",
          db_schema |-> qd.db_schema,
          name |-> name,
          schema |-> qd.db_schema.tables[
                        CHOOSE t \in DOMAIN qd.db_schema.tables :
                            \A u \in DOMAIN qd.db_schema.tables :
                                t = u \/ str_lt(t, u)]]

\* SchemaProvider::table: get_table_schema(name).unwrap() panics on None;
\* otherwise Some(QueryTable).
table(qd, name) ==
    LET found == get_table_schema(qd.db_schema, name) IN
    IF found = None
    THEN [tag |-> "Panic"]
    ELSE [tag |-> "QueryTable",
          db_schema |-> qd.db_schema,
          name |-> name,
          schema |-> found.schema]

\* ---------------------------------------------------------- QueryTable

Some(v) == [tag |-> "Some", v |-> v]

\* Arguments scan may be given.
ScanArgs ==
    {[projection |-> None, filters |-> <<>>, limit |-> None],
     [projection |-> Some(<<0, 2>>), filters |-> <<"host = 'a'">>,
      limit |-> Some(10)]}

\* What WriteBuffer::get_table_chunks may answer.
StorageError == [tag |-> "DataFusionError", msg |-> "get_table_chunks failed"]
StorageResults ==
    {[tag |-> "Err", err |-> StorageError]}
      \cup {[tag |-> "Ok", chunks |-> cs] : cs \in ChunkSeqs}

\* What the provider's own scan may answer.
ProviderScanError == [tag |-> "DataFusionError", msg |-> "provider scan failed"]
ProviderScanResults ==
    {[tag |-> "Err", err |-> ProviderScanError],
     [tag |-> "Ok", plan |-> "ExecutionPlan"]}

\* Variant of chunks: the two names are passed in the wrong order.
chunks_names_swapped(qt, projection, filters, limit) ==
    [db_name |-> qt.name,
     table_name |-> qt.db_schema.name,
     filters |-> filters,
     projection |-> projection]

\* QueryTable::chunks: the get_table_chunks call it makes on the write
\* buffer (the limit is not passed on).
chunks(qt, projection, filters, limit) ==
    [db_name |-> qt.db_schema.name,
     table_name |-> qt.name,
     filters |-> filters,
     projection |-> projection]

\* ProviderBuilder::new(name, schema)
ProviderBuilder_new(name, sch) ==
    [table_name |-> name, schema |-> sch, chunks |-> <<>>]

\* ProviderBuilder::add_chunk
add_chunk(builder, chunk) ==
    [builder EXCEPT !.chunks = Append(@, chunk)]

\* Variant of add_chunks: each turn of the loop starts from the empty
\* builder, so only the last chunk is kept.
add_chunks_last_only(builder, cs) ==
    IF cs = <<>> THEN builder
    ELSE add_chunk(builder, cs[Len(cs)])

\* The loop of lines 254-256: add_chunk for each chunk, in order.
RECURSIVE add_chunks(_, _)
add_chunks(builder, cs) ==
    IF cs = <<>> THEN builder
    ELSE add_chunks(add_chunk(builder, Head(cs)), Tail(cs))

\* ProviderBuilder::build: fails when a chunk does not fit the table schema.
build(builder) ==
    IF \A i \in DOMAIN builder.chunks : builder.chunks[i].compatible
    THEN [tag |-> "Ok", provider |-> builder]
    ELSE [tag |-> "Err"]

\* Variant of chunks_err: the error of get_table_chunks is unwrapped.
chunks_err_unwrapped(e) == [outcome |-> "Panic", err |-> None]

\* Line 253: `?` returns the error of get_table_chunks to the caller.
chunks_err(e) == [outcome |-> "Err", err |-> e]

\* Variant of build_err: the build error is returned to the planner.
build_err_returned ==
    [outcome |-> "Err", err |-> [tag |-> "DataFusionError", msg |-> "build failed"]]

\* Line 260: a build error panics.
build_err == [outcome |-> "Panic", err |-> None]

\* TableProvider::scan, given what get_table_chunks (storage) and the
\* provider's scan (pres) answer.  The answer records how scan ended
\* (outcome: Ok, Err or Panic), the error or plan returned, the
\* get_table_chunks call made, the builder, the provider built and the
\* arguments of the provider's scan.
scan(qt, projection, filters, limit, storage, pres) ==
    LET builder0 == ProviderBuilder_new(qt.name, qt.schema)
        request == chunks(qt, projection, filters, limit)
        nothing == [plan |-> None, request |-> request, builder |-> builder0,
                    provider |-> None, provider_scan |-> None]
    IN  IF storage.tag = "Err"
        THEN chunks_err(storage.err) @@ nothing
        ELSE LET builder == add_chunks(builder0, storage.chunks)
                 built == build(builder)
             IN  IF built.tag = "Err"
                 THEN build_err @@ [nothing EXCEPT !.builder = builder]
                 ELSE [outcome |-> pres.tag,
                       err |-> IF pres.tag = "Err" THEN pres.err ELSE None,
                       plan |-> IF pres.tag = "Ok" THEN Some(pres.plan) ELSE None,
                       request |-> request,
                       builder |-> builder,
                       provider |-> Some(built.provider),
                       provider_scan |-> Some([projection |-> projection,
                                               filters |-> filters,
                                               limit |-> limit])]

\* ------------------------------------------------------------------- Init

Init ==
    /\ catalog = [d \in DbNames |->
                    IF d = "telemetry"
                    THEN DatabaseSchema(d, "cpu" :> SchemaCpu)
                    ELSE None]
    /\ pc = [q \in Queries |-> "start"]
    /\ database = [q \in Queries |-> None]
    /\ qdb = [q \in Queries |-> None]
    /\ resolved = [q \in Queries |-> None]
    /\ token = [q \in Queries |-> None]
    /\ signals = [q \in Queries |-> <<>>]
    /\ calls = [q \in Queries |-> <<>>]
    /\ result = [q \in Queries |-> None]
    /\ lastCall = None
    /\ permits = new_semaphore
    /\ waiters = <<>>
    /\ held = [o \in Owners |-> 0]
    /\ closed = FALSE
    /\ semResult = [o \in Owners |-> None]

\* ------------------------------------------------------- catalog mutation

\* Another service creates a database: the catalog maps the name to a new
\* DatabaseSchema.
CreateDatabase(d) ==
    /\ catalog[d] = None
    /\ catalog' = [catalog EXCEPT ![d] = DatabaseSchema(d, NoTables)]
    /\ UNCHANGED <<queryVars, semVars>>

\* Another service creates a table: the catalog replaces the database's
\* Arc<DatabaseSchema> by a new one; Arcs handed out earlier are untouched.
CreateTable(d, t) ==
    /\ catalog[d] # None
    /\ t \notin DOMAIN catalog[d].tables
    /\ catalog' = [catalog EXCEPT ![d] =
                     DatabaseSchema(d, (t :> SchemaOf(t)) @@ catalog[d].tables)]
    /\ UNCHANGED <<queryVars, semVars>>

\* ------------------------------------------------ QueryExecutorImpl::query

\* Variant of calls_before_plan: planning starts before the token exists.
calls_before_plan_sql_first == <<"new_query_context", "sql", "record_query">>

\* The calls query() makes between a successful db() and its first await,
\* in program order (lines 68-76).
calls_before_plan == <<"new_query_context", "record_query", "sql">>

\* The locals of query() go out of scope (return, `?`, unwinding or the
\* future being dropped): `_token` is dropped, which fires its callback, and
\* the Arc<QueryDatabase> is released.  query() has no permit among its
\* locals: it never calls acquire_semaphore.
EndScope(q) ==
    /\ signals' = [signals EXCEPT ![q] = drop_token(token[q], signals[q])]
    /\ token' = [token EXCEPT ![q] = None]
    /\ qdb' = [qdb EXCEPT ![q] = None]
    /\ resolved' = [resolved EXCEPT ![q] = None]
    /\ UNCHANGED semVars

\* Lines 60-77: db(database); when it is None the DatabaseNotFound error
\* carrying the name is returned.  Otherwise the context and the token are
\* created and Planner::sql is called and awaited.  Nothing suspends
\* between the lookup and that await.
query_begin(q, d) ==
    /\ pc[q] = "start"
    /\ database' = [database EXCEPT ![q] = d]
    /\ IF db(catalog, d) = None
       THEN /\ pc' = [pc EXCEPT ![q] = "returned"]
            /\ result' = [result EXCEPT ![q] =
                            [tag |-> "DatabaseNotFound", db_name |-> d]]
            /\ UNCHANGED <<qdb, resolved, token, calls>>
       ELSE /\ pc' = [pc EXCEPT ![q] = "plan"]
            /\ qdb' = [qdb EXCEPT ![q] = db(catalog, d)]
            /\ resolved' = [resolved EXCEPT ![q] = catalog[d]]
            /\ token' = [token EXCEPT ![q] = record_query]
            /\ calls' = [calls EXCEPT ![q] = @ \o calls_before_plan]
            /\ UNCHANGED result
    /\ UNCHANGED <<catalog, signals, lastCall, semVars>>

\* The planner asks the default catalog for its table names.
planner_table_names(q) ==
    /\ pc[q] = "plan"
    /\ \E ks \in keys(qdb[q].db_schema.tables) :
          lastCall' = [tag |-> "table_names", q |-> q, self |-> qdb[q],
                       name |-> "", res |-> table_names(ks)]
    /\ UNCHANGED <<catalog, pc, database, qdb, resolved, token, signals, calls,
                   result, semVars>>

\* The planner asks whether a table exists.
planner_table_exist(q, name) ==
    /\ pc[q] = "plan"
    /\ lastCall' = [tag |-> "table_exist", q |-> q, self |-> qdb[q], name |-> name,
                    res |-> table_exist(qdb[q], name)]
    /\ UNCHANGED <<catalog, pc, database, qdb, resolved, token, signals, calls,
                   result, semVars>>

\* The planner resolves a table reference: table(name) answers with a
\* QueryTable, or panics, which unwinds the planning of this query.
planner_table(q, name) ==
    /\ pc[q] = "plan"
    /\ lastCall' = [tag |-> "table", q |-> q, self |-> qdb[q], name |-> name,
                    res |-> table(qdb[q], name)]
    /\ IF table(qdb[q], name).tag = "Panic"
       THEN /\ pc' = [pc EXCEPT ![q] = "panicked"]
            /\ EndScope(q)
       ELSE UNCHANGED <<pc, qdb, resolved, token, signals, semVars>>
    /\ UNCHANGED <<catalog, database, calls, result>>

\* The planner scans a table of the snapshot: the adapter table(name)
\* gave asks the write buffer for the table's chunks.
planner_scan(q, name) ==
    /\ pc[q] = "plan"
    /\ table(qdb[q], name).tag = "QueryTable"
    /\ lastCall' = [tag |-> "get_table_chunks", q |-> q, self |-> qdb[q],
                    name |-> name,
                    res |-> chunks(table(qdb[q], name), None, <<>>, None)]
    /\ UNCHANGED <<catalog, pc, database, qdb, resolved, token, signals, calls,
                   result, semVars>>

\* Line 77: Planner::sql returned Ok(plan); lines 80-82: execute_stream is
\* called and awaited.
query_plan_ok(q) ==
    /\ pc[q] = "plan"
    /\ calls' = [calls EXCEPT ![q] = Append(@, "execute_stream")]
    /\ pc' = [pc EXCEPT ![q] = "exec"]
    /\ UNCHANGED <<catalog, database, qdb, resolved, token, signals, result,
                   lastCall, semVars>>

\* Variant of query_plan_err: the plan error is only looked at after
\* execute_stream was called.
query_plan_err_after_exec(q) ==
    /\ pc[q] = "plan"
    /\ pc' = [pc EXCEPT ![q] = "returned"]
    /\ calls' = [calls EXCEPT ![q] = Append(@, "execute_stream")]
    /\ result' = [result EXCEPT ![q] = [tag |-> "PlanError"]]
    /\ EndScope(q)
    /\ UNCHANGED <<catalog, database, lastCall>>

\* Line 77: Planner::sql returned Err; `?` returns it.
query_plan_err(q) ==
    /\ pc[q] = "plan"
    /\ pc' = [pc EXCEPT ![q] = "returned"]
    /\ result' = [result EXCEPT ![q] = [tag |-> "PlanError"]]
    /\ EndScope(q)
    /\ UNCHANGED <<catalog, database, calls, lastCall>>

\* Lines 82-84: execute_stream returned Ok; query returns the stream.
query_exec_ok(q) ==
    /\ pc[q] = "exec"
    /\ pc' = [pc EXCEPT ![q] = "returned"]
    /\ result' = [result EXCEPT ![q] = [tag |-> "Stream"]]
    /\ EndScope(q)
    /\ UNCHANGED <<catalog, database, calls, lastCall>>

\* Line 82: execute_stream returned Err; `?` returns it.
query_exec_err(q) ==
    /\ pc[q] = "exec"
    /\ pc' = [pc EXCEPT ![q] = "returned"]
    /\ result' = [result EXCEPT ![q] = [tag |-> "ExecutionError"]]
    /\ EndScope(q)
    /\ UNCHANGED <<catalog, database, calls, lastCall>>

\* The caller drops the future of query() while it is suspended at one of
\* its awaits (lines 77 and 82).
query_cancel(q) ==
    /\ pc[q] \in {"plan", "exec"}
    /\ pc' = [pc EXCEPT ![q] = "cancelled"]
    /\ EndScope(q)
    /\ UNCHANGED <<catalog, database, calls, result, lastCall>>

Next ==
    \/ \E d \in DbNames : CreateDatabase(d)
    \/ \E d \in DbNames, t \in NewTables : CreateTable(d, t)
    \/ \E q \in Queries, d \in DbNames : query_begin(q, d)
    \/ \E q \in Queries : planner_table_names(q)
    \/ \E q \in Queries, t \in TableNames : planner_table_exist(q, t)
    \/ \E q \in Queries, t \in TableNames : planner_table(q, t)
    \/ \E q \in Queries, t \in TableNames : planner_scan(q, t)
    \/ \E q \in Queries : query_plan_ok(q)
    \/ \E q \in Queries : query_plan_err(q)
    \/ \E q \in Queries : query_exec_ok(q)
    \/ \E q \in Queries : query_exec_err(q)
    \/ \E q \in Queries : query_cancel(q)

Spec == Init /\ [][Next]_vars

\* ------------------------------------ QueryExecutorImpl::acquire_semaphore

\* What acquire_owned answers: a permit, or AcquireError when the
\* semaphore is closed.
AcquireOk == [tag |-> "Ok", permit |-> "InstrumentedAsyncOwnedSemaphorePermit"]
AcquireErr == [tag |-> "Err", err |-> "AcquireError"]

\* Variant of expect: the error of acquire_owned is handed to the caller.
expect_returns_err(acq) ==
    IF acq.tag = "Ok"
    THEN [tag |-> "Permit", permit |-> acq.permit]
    ELSE [tag |-> "Err", err |-> acq.err]

\* Line 110: .expect("Semaphore should not be closed by anyone") gives the
\* permit of an Ok and panics on an Err.
expect(acq) ==
    IF acq.tag = "Ok"
    THEN [tag |-> "Permit", permit |-> acq.permit]
    ELSE [tag |-> "Panic", msg |-> "Semaphore should not be closed by anyone"]

\* Variant of next_waiter: the newest waiter is served first.
next_waiter_newest(ws) == ws[Len(ws)]

\* The waiter a released permit goes to: the one that has waited longest.
next_waiter(ws) == Head(ws)

\* acquire_semaphore, called by another service (the Flight service) for
\* owner o: acquire_owned takes a permit when one is free and nobody is
\* queued, else the caller joins the queue and is suspended; on a closed
\* semaphore it answers an error at once.
acquire_semaphore(o) ==
    /\ held[o] = 0
    /\ semResult[o] = None
    /\ \A i \in DOMAIN waiters : waiters[i] # o
    /\ IF closed
       THEN /\ semResult' = [semResult EXCEPT ![o] = expect(AcquireErr)]
            /\ UNCHANGED <<permits, waiters, held>>
       ELSE IF permits > 0 /\ waiters = <<>>
       THEN /\ permits' = permits - 1
            /\ held' = [held EXCEPT ![o] = 1]
            /\ semResult' = [semResult EXCEPT ![o] = expect(AcquireOk)]
            /\ UNCHANGED waiters
       ELSE /\ waiters' = Append(waiters, o)
            /\ UNCHANGED <<permits, held, semResult>>
    /\ UNCHANGED <<catalog, queryVars, closed>>

\* The owner drops its InstrumentedAsyncOwnedSemaphorePermit: the permit
\* goes to the next waiter, whose acquire_semaphore call returns, or back
\* to the semaphore when nobody waits.
drop_permit(o) ==
    /\ held[o] > 0
    /\ IF waiters # <<>>
       THEN LET w == next_waiter(waiters) IN
            /\ held' = [held EXCEPT ![o] = 0, ![w] = 1]
            /\ semResult' = [semResult EXCEPT ![o] = None,
                                              ![w] = expect(AcquireOk)]
            /\ waiters' = SelectSeq(waiters, LAMBDA x : x # w)
            /\ UNCHANGED permits
       ELSE /\ held' = [held EXCEPT ![o] = 0]
            /\ semResult' = [semResult EXCEPT ![o] = None]
            /\ permits' = permits + 1
            /\ UNCHANGED waiters
    /\ UNCHANGED <<catalog, queryVars, closed>>

\* The semaphore is closed (torn down): every suspended acquire_owned
\* answers an error, and so does every later one.
close_semaphore ==
    /\ ~closed
    /\ closed' = TRUE
    /\ semResult' = [o \in Owners |->
                        IF \E i \in DOMAIN waiters : waiters[i] = o
                        THEN expect(AcquireErr)
                        ELSE semResult[o]]
    /\ waiters' = <<>>
    /\ UNCHANGED <<catalog, queryVars, permits, held>>

SemNext ==
    \/ \E o \in Callers : acquire_semaphore(o)
    \/ \E o \in Callers : drop_permit(o)

SemSpec == Init /\ [][SemNext]_vars

\* Every owner of a permit drops it in the end: running queries end.
FairSemSpec == SemSpec /\ \A o \in Callers : WF_vars(drop_permit(o))

CloseSemNext ==
    \/ SemNext
    \/ close_semaphore

CloseSemSpec == Init /\ [][CloseSemNext]_vars

\* --------------------------------- the providers, on any catalog snapshot

\* The tables a snapshot may hold: any of the names, each with a schema.
SnapshotTables == UNION {[S -> Schemas] : S \in SUBSET SnapshotNames}

\* The QueryDatabase of database telemetry whose snapshot is the catalog's.
TheDb == db(catalog, "telemetry")

\* Any snapshot of database telemetry; no query runs.
ProviderInit ==
    /\ catalog \in {[d \in DbNames |->
                        IF d = "telemetry" THEN DatabaseSchema(d, tbls) ELSE None] :
                     tbls \in SnapshotTables}
    /\ pc = [q \in Queries |-> "start"]
    /\ database = [q \in Queries |-> None]
    /\ qdb = [q \in Queries |-> None]
    /\ resolved = [q \in Queries |-> None]
    /\ token = [q \in Queries |-> None]
    /\ signals = [q \in Queries |-> <<>>]
    /\ calls = [q \in Queries |-> <<>>]
    /\ result = [q \in Queries |-> None]
    /\ lastCall = None
    /\ permits = new_semaphore
    /\ waiters = <<>>
    /\ held = [o \in Owners |-> 0]
    /\ closed = FALSE
    /\ semResult = [o \in Owners |-> None]

ProviderFrame ==
    UNCHANGED <<catalog, pc, database, qdb, resolved, token, signals, calls,
                result, semVars>>

\* table_names() on the snapshot, its map yielding the keys in order ks.
provider_table_names(ks) ==
    /\ lastCall' = [tag |-> "table_names", q |-> 0, self |-> TheDb,
                    name |-> "", keys |-> ks, res |-> table_names(ks)]
    /\ ProviderFrame

\* table_exist(name) on the snapshot.
provider_table_exist(name) ==
    /\ lastCall' = [tag |-> "table_exist", q |-> 0, self |-> TheDb,
                    name |-> name, res |-> table_exist(TheDb, name)]
    /\ ProviderFrame

\* table(name) on the snapshot.
provider_table(name) ==
    /\ lastCall' = [tag |-> "table", q |-> 0, self |-> TheDb,
                    name |-> name, res |-> table(TheDb, name)]
    /\ ProviderFrame

\* schema_names() on the snapshot.
provider_schema_names ==
    /\ lastCall' = [tag |-> "schema_names", q |-> 0, self |-> TheDb,
                    name |-> "", res |-> schema_names(TheDb)]
    /\ ProviderFrame

\* schema(name) on the snapshot.
provider_schema(name) ==
    /\ lastCall' = [tag |-> "schema", q |-> 0, self |-> TheDb,
                    name |-> name, res |-> schema(TheDb, name)]
    /\ ProviderFrame

\* scan on the adapter of a table of the snapshot.
provider_scan(name, projection, filters, limit, storage, pres) ==
    /\ table(TheDb, name).tag = "QueryTable"
    /\ lastCall' = [tag |-> "scan", q |-> 0, self |-> table(TheDb, name),
                    name |-> name,
                    args |-> [projection |-> projection, filters |-> filters,
                              limit |-> limit],
                    storage |-> storage,
                    res |-> scan(table(TheDb, name), projection, filters,
                                 limit, storage, pres)]
    /\ ProviderFrame

ProviderNext ==
    \/ \E ks \in keys(catalog["telemetry"].tables) : provider_table_names(ks)
    \/ \E name \in SnapshotNames : provider_table_exist(name)
    \/ \E name \in SnapshotNames : provider_table(name)
    \/ provider_schema_names
    \/ \E name \in SchemaNameArgs : provider_schema(name)
    \/ \E name \in SnapshotNames, args \in ScanArgs,
          storage \in StorageResults, pres \in ProviderScanResults :
            provider_scan(name, args.projection, args.filters, args.limit,
                          storage, pres)

ProviderSpec == ProviderInit /\ [][ProviderNext]_vars

\* ================================================================= claims

Terminal == {"returned", "cancelled", "panicked"}
Range(seq) == {seq[i] : i \in DOMAIN seq}
Executing == {q \in Queries : pc[q] \in {"plan", "exec"}}

\* C1: a query whose database resolved holds one permit of the
\* query-execution semaphore from before Planner::sql begins: no query is
\* planning or in execute_stream without a permit.
C1_PermitHeldWhilePlanning ==
    \A q \in Queries : pc[q] \in {"plan", "exec"} => held[q] = 1

\* C2: with concurrent_query_limit N, at most N queries are in the
\* planning/execution phase at any time.
C2_AtMostLimitExecuting ==
    Cardinality(Executing) <= ConcurrentQueryLimit

\* C3: a query on a database name absent from the catalog returns
\* DatabaseNotFound carrying that name, and on that path it acquired no
\* permit, created no token and called neither the planner nor the executor.
C3_DatabaseNotFound ==
    \A q \in Queries :
        /\ (pc[q] # "start" /\ catalog[database[q]] = None)
             => result[q] = [tag |-> "DatabaseNotFound", db_name |-> database[q]]
        /\ result[q].tag = "DatabaseNotFound"
             => /\ result[q].db_name = database[q]
                /\ pc[q] = "returned"
                /\ calls[q] = <<>>
                /\ held[q] = 0
                /\ permits = new_semaphore
                /\ token[q] = None
                /\ signals[q] = <<>>
                /\ qdb[q] = None

\* C3 witness: a query on missing_db has returned DatabaseNotFound while
\* another query is being planned.
C3_Witness ==
    \E q1, q2 \in Queries :
        /\ result[q1] = [tag |-> "DatabaseNotFound", db_name |-> "missing_db"]
        /\ pc[q2] = "plan"

C5_ExactlyOneSignal ==
    \A q \in Queries :
        /\ Len(signals[q]) <= 1
        /\ ("record_query" \in Range(calls[q]) /\ pc[q] \in Terminal)
             => Len(signals[q]) = 1
        /\ "record_query" \notin Range(calls[q]) => signals[q] = <<>>
        /\ token[q] # None => signals[q] = <<>>

\* C5 witness: one query ended by a panic and another by cancellation, each
\* with one recorded signal.
C5_Witness ==
    \E q1, q2 \in Queries :
        /\ pc[q1] = "panicked" /\ Len(signals[q1]) = 1
        /\ pc[q2] = "cancelled" /\ Len(signals[q2]) = 1

\* C6: the recorded signal matches the outcome: success when query returned
\* the stream, failure when planning failed, execution failed or the query
\* was cancelled.
C6_SignalMatchesOutcome ==
    \A q \in Queries :
        /\ result[q].tag = "Stream" => signals[q] = <<TRUE>>
        /\ (result[q].tag \in {"PlanError", "ExecutionError"} \/ pc[q] = "cancelled")
             => signals[q] = <<FALSE>>

\* C7: the token is created by record_query strictly before Planner::sql is
\* called, so a query being planned or executed has a token, and a query
\* that failed in planning or execution created one and its outcome was
\* recorded.
C7_TokenBeforePlanning ==
    \A q \in Queries :
        /\ \A i \in DOMAIN calls[q] :
              calls[q][i] = "sql"
                => \E j \in 1 .. (i - 1) : calls[q][j] = "record_query"
        /\ pc[q] \in {"plan", "exec"} => token[q] = record_query
        /\ result[q].tag \in {"PlanError", "ExecutionError"}
             => ("record_query" \in Range(calls[q]) /\ Len(signals[q]) = 1)

\* C7 witness: one query failed in planning and one in execution, each with
\* its token's outcome recorded.
C7_Witness ==
    \E q1, q2 \in Queries :
        /\ result[q1].tag = "PlanError" /\ Len(signals[q1]) = 1
        /\ result[q2].tag = "ExecutionError" /\ Len(signals[q2]) = 1

C9_SnapshotIsolation ==
    /\ \A q \in Queries : qdb[q] # None => qdb[q].db_schema = resolved[q]
    /\ (lastCall # None /\ pc[lastCall.q] \in {"plan", "exec"})
         => LET snap == resolved[lastCall.q].tables IN
            CASE lastCall.tag = "table_names" -> Range(lastCall.res) = DOMAIN snap
              [] lastCall.tag = "table_exist" ->
                    lastCall.res = (lastCall.name \in DOMAIN snap)
              [] lastCall.tag = "get_table_chunks" ->
                    lastCall.name \in DOMAIN snap
              [] lastCall.tag = "table" ->
                    /\ lastCall.name \in DOMAIN snap
                    /\ lastCall.res.tag = "QueryTable"
                    /\ lastCall.res.name = lastCall.name
                    /\ lastCall.res.schema = snap[lastCall.name]

\* C9 witness: table mem was created after q1 resolved its database and
\* before q2 resolved the same database; q1 has just been told that mem does
\* not exist while q2's snapshot has it.
C9_Witness ==
    \E q1, q2 \in Queries :
        /\ pc[q1] = "plan" /\ pc[q2] = "plan"
        /\ database[q1] = database[q2]
        /\ "mem" \in DOMAIN catalog[database[q1]].tables
        /\ "mem" \notin DOMAIN resolved[q1].tables
        /\ "mem" \in DOMAIN qdb[q2].db_schema.tables
        /\ lastCall.tag = "table_exist" /\ lastCall.q = q1
        /\ lastCall.name = "mem" /\ lastCall.res = FALSE

\* C10: table(name) answers with a table scan adapter when name is a table
\* of the snapshot and with None, without a fatal failure, when it is not:
\* its answer agrees with table_exist(name).
C10_TableAgreesWithTableExist ==
    lastCall.tag = "table"
      => lastCall.res.tag =
           IF table_exist(lastCall.self, lastCall.name) THEN "QueryTable" ELSE "None"

\* C11: whatever the order in which the map yields the tables,
\* table_names() returns exactly the table names of the snapshot, each
\* once, in ascending lexicographic order.
C11_TableNamesSorted ==
    lastCall.tag = "table_names"
      => /\ Range(lastCall.res) = DOMAIN lastCall.self.db_schema.tables
         /\ Len(lastCall.res) = Cardinality(DOMAIN lastCall.self.db_schema.tables)
         /\ \A i, j \in DOMAIN lastCall.res :
               i < j => str_lt(lastCall.res[i], lastCall.res[j])

\* C11 witness: a snapshot of three tables whose map yielded the names in
\* descending order, and table_names() answered.
C11_Witness ==
    /\ lastCall.tag = "table_names"
    /\ lastCall.keys = <<"cpu", "cp", "Disk">>
    /\ lastCall.res = <<"Disk", "cp", "cpu">>

\* C12: schema_names() returns exactly the one fixed default schema name,
\* and schema(name) returns the database itself for that name and None for
\* every other name, whatever the catalog holds.
C12_SingleDefaultSchema ==
    /\ lastCall.tag = "schema_names" => lastCall.res = <<DEFAULT_SCHEMA>>
    /\ lastCall.tag = "schema"
         => lastCall.res =
              IF lastCall.name = "iox"
              THEN [tag |-> "SchemaProvider", provider |-> lastCall.self]
              ELSE None

\* C12 witness: on a snapshot that has a table, schema("public") was
\* answered with None.
C12_Witness ==
    /\ lastCall.tag = "schema" /\ lastCall.name = "public"
    /\ lastCall.res = None
    /\ DOMAIN lastCall.self.db_schema.tables # {}

C16_ChunksErrorReturned ==
    (lastCall.tag = "scan" /\ lastCall.storage.tag = "Err")
      => /\ lastCall.res.outcome = "Err"
         /\ lastCall.res.err = lastCall.storage.err
         /\ lastCall.res.plan = None
         /\ lastCall.res.provider = None
         /\ lastCall.res.provider_scan = None

\* C16 witness: get_table_chunks failed and scan returned its error.
C16_Witness ==
    /\ lastCall.tag = "scan" /\ lastCall.storage.tag = "Err"
    /\ lastCall.res.err = StorageError

\* C17: when building the provider from the accumulated chunks fails, scan
\* panics: it returns neither an error value nor an execution plan, and the
\* provider's scan is not called.
C17_BuildErrorPanics ==
    (lastCall.tag = "scan" /\ lastCall.storage.tag = "Ok"
       /\ build(lastCall.res.builder).tag = "Err")
      => /\ lastCall.res.outcome = "Panic"
         /\ lastCall.res.err = None
         /\ lastCall.res.plan = None
         /\ lastCall.res.provider_scan = None

\* C17 witness: get_table_chunks returned a chunk that does not fit the
\* table schema, after one that does, and scan panicked.
C17_Witness ==
    /\ lastCall.tag = "scan" /\ lastCall.storage.tag = "Ok"
    /\ Len(lastCall.storage.chunks) = 2
    /\ lastCall.storage.chunks[1].compatible
    /\ ~lastCall.storage.chunks[2].compatible
    /\ lastCall.res.outcome = "Panic"

\* C18: every get_table_chunks call made for a query passes the name of the
\* database the query was resolved against and the name of the table the
\* adapter was created for, whatever other queries run on other databases.
C18_ChunksOfOwnDatabase ==
    lastCall.tag = "get_table_chunks"
      => /\ lastCall.res.db_name = database[lastCall.q]
         /\ lastCall.res.table_name = lastCall.name
         /\ pc[lastCall.q] \in {"plan", "exec"}
              => lastCall.res.db_name = resolved[lastCall.q].name

\* C18 witness: two queries are being planned on different databases that
\* both have table mem, and one of them asked for the chunks of mem.
C18_Witness ==
    \E q1, q2 \in Queries :
        /\ pc[q1] = "plan" /\ pc[q2] = "plan"
        /\ database[q1] = "telemetry" /\ database[q2] = "missing_db"
        /\ "mem" \in DOMAIN qdb[q1].db_schema.tables
        /\ "mem" \in DOMAIN qdb[q2].db_schema.tables
        /\ lastCall.tag = "get_table_chunks" /\ lastCall.q = q2
        /\ lastCall.name = "mem"

\* C13: an acquire_semaphore call that finds the semaphore closed, at the
\* call or while it is suspended, ends in a panic: it returns no error
\* value and no permit, and nobody stays suspended on a closed semaphore.
C13_ClosedSemaphorePanics ==
    [][closed'
         => /\ waiters' = <<>>
            /\ \A o \in Callers :
                  semResult'[o] # semResult[o] /\ semResult'[o] # None
                    => /\ semResult'[o].tag = "Panic"
                       /\ held'[o] = 0]_vars

\* C13 witness: the semaphore was closed while one caller held the permit
\* and another was suspended, and a third called afterwards: both calls
\* panicked.
C13_Witness ==
    /\ closed
    /\ \E o1, o2, o3 \in Callers :
          /\ o1 # o2 /\ o2 # o3 /\ o1 # o3
          /\ held[o1] = 1
          /\ semResult[o2].tag = "Panic" /\ semResult[o3].tag = "Panic"

\* A caller is suspended in acquire_semaphore.
Waiting(o) == \E i \in DOMAIN waiters : waiters[i] = o

=============================================================================
